---------------------------- MODULE Spec2Model ----------------------------
(***************************************************************************)
(* Model of data/mnist_dataset_builder.py: the IDX header validators       *)
(* (read32, check_image_file_header, check_labels_file_header) and the     *)
(* record pipeline that dataset() builds from two FixedLengthRecordDataset *)
(* readers combined with Dataset.zip.                                      *)
(*                                                                         *)
(* One behaviour is one call of dataset(directory, images_file,            *)
(* labels_file) followed by the caller pulling elements from the returned  *)
(* dataset.  The two files on disk are the inputs; they are byte           *)
(* sequences (each byte a number in 0..255).                               *)
(***************************************************************************)
EXTENDS Integers, Sequences, FiniteSets, TLC

VARIABLES imagesFile,    \* bytes of the file download() returned for images_file
          labelsFile,    \* bytes of the file download() returned for labels_file
          pc,            \* position of the program inside dataset() / the consumer loop
          handles,       \* state of the handle each validator opens with tf.gfile.Open
          cursor,        \* read position of the validator's open handle
          words,         \* values the running validator has obtained from read32 so far
          exc,           \* the exception in flight (NoExc when none)
          ret,           \* what each validator returned to dataset()
          imgIt,         \* iterator state of the images FixedLengthRecordDataset
          labIt,         \* iterator state of the labels FixedLengthRecordDataset
          out,           \* the (image, label) pairs handed to the consumer so far
          requests,      \* number of get_next requests the consumer has made
          itStatus       \* "none" (no dataset yet), "active", "end", "error"

vars == <<imagesFile, labelsFile, pc, handles, cursor, words,
          exc, ret, imgIt, labIt, out, requests, itStatus>>

---------------------------------------------------------------------------
(* Program constants *)

ImageMagic == 2051

LabelMagic == 2049

ImageDim == 28

ImageRecordBytes == 28 * 28

ImageHeaderBytes == 16

LabelRecordBytes == 1

LabelHeaderBytes == 8

WordBytes == 4

(* Bounds of the explored inputs *)

MaxItems == 2

MaxRecords == 2

MaxLabels == 9

---------------------------------------------------------------------------
(* Sequence helpers *)

Min(a, b) == IF a < b THEN a ELSE b

Take(s, n) == SubSeq(s, 1, Min(n, Len(s)))

Drop(s, n) == SubSeq(s, n + 1, Len(s))

---------------------------------------------------------------------------
(* Exceptions.  cls is the Python exception class, kind tells the raise    *)
(* site's message apart, val holds the values the message reports, site is *)
(* the function that raised.                                               *)

NoExc == [cls |-> "None", kind |-> "none", val |-> <<>>, site |-> "none"]

MagicError(magic, fn) ==
    [cls |-> "ValueError", kind |-> "invalid_magic", val |-> <<magic>>, site |-> fn]

DimensionsError(rows, cols, fn) ==
    [cls |-> "ValueError", kind |-> "invalid_dimensions", val |-> <<rows, cols>>, site |-> fn]

(* np.frombuffer on a buffer whose size is not a multiple of the item size *)
BufferSizeError ==
    [cls |-> "ValueError", kind |-> "buffer_size", val |-> <<>>, site |-> "read32"]

(* [0] on the empty array np.frombuffer returns for an empty buffer *)
EmptyIndexError ==
    [cls |-> "IndexError", kind |-> "index_out_of_bounds", val |-> <<>>, site |-> "read32"]

---------------------------------------------------------------------------
(* read32 *)

(* The same bytes read least significant byte first *)
RECURSIVE LittleEndian(_)
LittleEndian(b) ==
    IF b = <<>> THEN 0 ELSE Head(b) + 256 * LittleEndian(Tail(b))

(* The value of one item of dtype uint32 with byte order '>': the first    *)
(* byte is the most significant.                                           *)
RECURSIVE BigEndian(_)
BigEndian(b) ==
    IF b = <<>> THEN 0 ELSE BigEndian(SubSeq(b, 1, Len(b) - 1)) * 256 + b[Len(b)]

(* bytestream.read(n): the next n bytes, or fewer at the end of the file *)
StreamRead(bytes, cur, n) == SubSeq(bytes, cur + 1, Min(cur + n, Len(bytes)))

(* np.frombuffer(buf, dtype=dt): the items of buf, or ValueError when the  *)
(* buffer size is not a multiple of the item size.                         *)
RECURSIVE Items(_)
Items(buf) ==
    IF Len(buf) < WordBytes THEN <<>>
    ELSE <<BigEndian(Take(buf, WordBytes))>> \o Items(Drop(buf, WordBytes))

FromBuffer(buf) ==
    IF Len(buf) % WordBytes # 0
    THEN [exc |-> BufferSizeError, arr |-> <<>>]
    ELSE [exc |-> NoExc, arr |-> Items(buf)]

(* read32(bytestream) on a stream over bytes positioned at cur: the        *)
(* exception raised (NoExc when none), the value returned and the stream   *)
(* position afterwards.                                                    *)
Read32(bytes, cur) ==
    LET buf == StreamRead(bytes, cur, WordBytes)
        fb  == FromBuffer(buf)
        pos == cur + Len(buf)
    IN  IF fb.exc # NoExc THEN [exc |-> fb.exc, value |-> 0, cursor |-> pos]
        ELSE IF fb.arr = <<>> THEN [exc |-> EmptyIndexError, value |-> 0, cursor |-> pos]
        ELSE [exc |-> NoExc, value |-> fb.arr[1], cursor |-> pos]

---------------------------------------------------------------------------
(* The files on disk.  Headers are written most significant byte first.   *)

Enc32(v) == << (v \div 16777216) % 256, (v \div 65536) % 256, (v \div 256) % 256, v % 256 >>

SwappedImageMagic == 3 * 16777216 + 8 * 65536   \* 2051 with its four bytes reversed

SwappedLabelMagic == 1 * 16777216 + 8 * 65536   \* 2049 with its four bytes reversed

Pixel(k, i) == (k * 101 + i) % 256

ImageRecord(k) == [i \in 1..ImageRecordBytes |-> Pixel(k, i)]

RECURSIVE ImageBody(_)
ImageBody(n) == IF n = 0 THEN <<>> ELSE ImageBody(n - 1) \o ImageRecord(n)

LabelBody(n) == [k \in 1..n |-> (3 * k + 4) % 10]

ImageHeader(magic, count, rows, cols) ==
    Enc32(magic) \o Enc32(count) \o Enc32(rows) \o Enc32(cols)

LabelHeader(magic, count) == Enc32(magic) \o Enc32(count)

HalfRecord == ImageRecordBytes \div 2

(* Image files with a good header and any body: whole records, then       *)
(* possibly half of another one; the declared count is independent.       *)
GoodHeaderImageFiles ==
    { ImageHeader(ImageMagic, c, ImageDim, ImageDim) \o ImageBody(n)
          \o Take(ImageRecord(n + 1), t) :
        c \in 0..MaxItems, n \in 0..MaxRecords, t \in {0, HalfRecord} }

AnyImageHeaders ==
    { ImageHeader(m, c, r, k) :
        m \in {ImageMagic, LabelMagic, SwappedImageMagic}, c \in {1},
        r \in {ImageDim, ImageDim - 1}, k \in {ImageDim, ImageDim - 1} }

ValidLabelFiles == { LabelHeader(LabelMagic, n) \o LabelBody(n) : n \in 0..MaxLabels }

LabelFilesWithBody ==
    { LabelHeader(m, c) \o LabelBody(n) :
        m \in {LabelMagic, ImageMagic, SwappedLabelMagic}, c \in 0..MaxItems, n \in 0..MaxItems }

Prefixes(S, maxLen) == { Take(f, n) : f \in S, n \in 0..maxLen }

ImageFiles ==
    GoodHeaderImageFiles \cup Prefixes(AnyImageHeaders, ImageHeaderBytes) \cup ValidLabelFiles

LabelFiles ==
    ValidLabelFiles \cup LabelFilesWithBody
        \cup Prefixes({LabelHeader(m, 1) : m \in {LabelMagic, ImageMagic}}, LabelHeaderBytes)

---------------------------------------------------------------------------
(* Header checks *)

(* Variant: the dimensions are rejected only when rows and cols are both wrong *)
ImageHeaderVerdictBothDims(magic, rows, cols) ==
    IF magic # ImageMagic THEN MagicError(magic, "check_image_file_header")
    ELSE IF rows # ImageDim /\ cols # ImageDim
         THEN DimensionsError(rows, cols, "check_image_file_header")
         ELSE NoExc

(* Variant: the dimensions are tested before the magic number *)
ImageHeaderVerdictDimsFirst(magic, rows, cols) ==
    IF rows # ImageDim \/ cols # ImageDim
    THEN DimensionsError(rows, cols, "check_image_file_header")
    ELSE IF magic # ImageMagic THEN MagicError(magic, "check_image_file_header")
         ELSE NoExc

(* Variant: the label validator tests for the image magic number *)
LabelHeaderVerdictImageMagic(magic) ==
    IF magic # ImageMagic THEN MagicError(magic, "check_labels_file_header") ELSE NoExc

(* check_image_file_header, the two tests made once all four words are read *)
ImageHeaderVerdict(magic, rows, cols) ==
    IF magic # ImageMagic THEN MagicError(magic, "check_image_file_header")
    ELSE IF rows # ImageDim \/ cols # ImageDim
         THEN DimensionsError(rows, cols, "check_image_file_header")
         ELSE NoExc

(* check_labels_file_header, the test made once both words are read *)
LabelHeaderVerdict(magic) ==
    IF magic # LabelMagic THEN MagicError(magic, "check_labels_file_header") ELSE NoExc

ImageHeaderWords == 4

LabelHeaderWords == 2

(* Return values: the validators have no return statement *)
RetPending == [returned |-> FALSE, isNone |-> FALSE, items |-> <<>>]

PyNone == [returned |-> TRUE, isNone |-> TRUE, items |-> <<>>]

---------------------------------------------------------------------------
(* State after download(): both files exist on disk, nothing opened yet *)

NoIterator == [built |-> FALSE, strict |-> FALSE, opened |-> FALSE, pos |-> 0]

Init ==
    /\ imagesFile \in ImageFiles
    /\ labelsFile \in LabelFiles
    /\ pc = "img_open"
    /\ handles = [images |-> "unopened", labels |-> "unopened"]
    /\ cursor = 0
    /\ words = <<>>
    /\ exc = NoExc
    /\ ret = [images |-> RetPending, labels |-> RetPending]
    /\ imgIt = NoIterator
    /\ labIt = NoIterator
    /\ out = <<>>
    /\ requests = 0
    /\ itStatus = "none"

(* with tf.gfile.Open(filename, 'rb') as f: *)
ImgOpen ==
    /\ pc = "img_open"
    /\ handles' = [handles EXCEPT !.images = "open"]
    /\ cursor' = 0
    /\ words' = <<>>
    /\ pc' = "img_read"
    /\ UNCHANGED <<imagesFile, labelsFile, exc, ret, imgIt, labIt, out, requests, itStatus>>

(* one of the four read32(f) calls of check_image_file_header *)
ImgRead32 ==
    /\ pc = "img_read"
    /\ LET r == Read32(imagesFile, cursor)
       IN  /\ cursor' = r.cursor
           /\ IF r.exc = NoExc
              THEN /\ words' = Append(words, r.value)
                   /\ exc' = exc
                   /\ pc' = IF Len(words) + 1 = ImageHeaderWords THEN "img_check" ELSE "img_read"
              ELSE /\ words' = words
                   /\ exc' = r.exc
                   /\ pc' = "img_exit"
    /\ UNCHANGED <<imagesFile, labelsFile, handles, ret, imgIt, labIt, out, requests, itStatus>>

(* the magic and dimension tests of check_image_file_header *)
ImgCheck ==
    /\ pc = "img_check"
    /\ exc' = ImageHeaderVerdict(words[1], words[3], words[4])
    /\ pc' = "img_exit"
    /\ UNCHANGED <<imagesFile, labelsFile, handles, cursor, words, ret, imgIt, labIt,
                   out, requests, itStatus>>

(* Variant: the handle is closed only on a normal return *)
ImgExitKeepOpenOnError ==
    /\ pc = "img_exit"
    /\ handles' = [handles EXCEPT !.images = IF exc = NoExc THEN "closed" ELSE "open"]
    /\ IF exc = NoExc
       THEN /\ ret' = [ret EXCEPT !.images = PyNone]
            /\ pc' = "lab_open"
       ELSE /\ ret' = ret
            /\ pc' = "raised"
    /\ UNCHANGED <<imagesFile, labelsFile, cursor, words, exc, imgIt, labIt, out,
                   requests, itStatus>>

(* Variant: an exception raised inside the with block is swallowed *)
ImgExitSwallow ==
    /\ pc = "img_exit"
    /\ handles' = [handles EXCEPT !.images = "closed"]
    /\ ret' = [ret EXCEPT !.images = PyNone]
    /\ exc' = NoExc
    /\ pc' = "lab_open"
    /\ UNCHANGED <<imagesFile, labelsFile, cursor, words, imgIt, labIt, out,
                   requests, itStatus>>

(* leaving the with block of check_image_file_header, normally or by an    *)
(* exception: the handle is closed, then the function returns or the       *)
(* exception propagates through dataset() to its caller.                   *)
ImgExit ==
    /\ pc = "img_exit"
    /\ handles' = [handles EXCEPT !.images = "closed"]
    /\ IF exc = NoExc
       THEN /\ ret' = [ret EXCEPT !.images = PyNone]
            /\ pc' = "lab_open"
       ELSE /\ ret' = ret
            /\ pc' = "raised"
    /\ UNCHANGED <<imagesFile, labelsFile, cursor, words, exc, imgIt, labIt, out,
                   requests, itStatus>>

(* with tf.gfile.Open(filename, 'rb') as f: in check_labels_file_header *)
LabOpen ==
    /\ pc = "lab_open"
    /\ handles' = [handles EXCEPT !.labels = "open"]
    /\ cursor' = 0
    /\ words' = <<>>
    /\ pc' = "lab_read"
    /\ UNCHANGED <<imagesFile, labelsFile, exc, ret, imgIt, labIt, out, requests, itStatus>>

(* one of the two read32(f) calls of check_labels_file_header *)
LabRead32 ==
    /\ pc = "lab_read"
    /\ LET r == Read32(labelsFile, cursor)
       IN  /\ cursor' = r.cursor
           /\ IF r.exc = NoExc
              THEN /\ words' = Append(words, r.value)
                   /\ exc' = exc
                   /\ pc' = IF Len(words) + 1 = LabelHeaderWords THEN "lab_check" ELSE "lab_read"
              ELSE /\ words' = words
                   /\ exc' = r.exc
                   /\ pc' = "lab_exit"
    /\ UNCHANGED <<imagesFile, labelsFile, handles, ret, imgIt, labIt, out, requests, itStatus>>

(* the magic test of check_labels_file_header *)
LabCheck ==
    /\ pc = "lab_check"
    /\ exc' = LabelHeaderVerdict(words[1])
    /\ pc' = "lab_exit"
    /\ UNCHANGED <<imagesFile, labelsFile, handles, cursor, words, ret, imgIt, labIt,
                   out, requests, itStatus>>

(* leaving the with block of check_labels_file_header *)
LabExit ==
    /\ pc = "lab_exit"
    /\ handles' = [handles EXCEPT !.labels = "closed"]
    /\ IF exc = NoExc
       THEN /\ ret' = [ret EXCEPT !.labels = PyNone]
            /\ pc' = "build"
       ELSE /\ ret' = ret
            /\ pc' = "raised"
    /\ UNCHANGED <<imagesFile, labelsFile, cursor, words, exc, imgIt, labIt, out,
                   requests, itStatus>>

---------------------------------------------------------------------------
(* The record pipeline dataset() builds *)

(* decode_image: decode_raw to uint8, cast to float32, reshape to [784],   *)
(* divide by 255.0.  The float b / 255.0 is kept as the pair <<b, 255>>.   *)
DecodeImage(rec) == [i \in 1..ImageRecordBytes |-> <<rec[i], 255>>]

(* decode_label: decode_raw to uint8, reshape to a scalar, to_int32 *)
DecodeLabel(rec) == rec[1]

BodySizeError ==
    [cls |-> "InvalidArgumentError", kind |-> "body_not_multiple_of_record", val |-> <<>>,
     site |-> "FixedLengthRecordDataset"]

ShortRecordError ==
    [cls |-> "OutOfRangeError", kind |-> "short_record", val |-> <<>>,
     site |-> "FixedLengthRecordDataset"]

(* Variant: the reader stops one record early *)
FLRNextDropsLast(file, recBytes, hdrBytes, it) ==
    LET pos == IF it.opened THEN it.pos ELSE hdrBytes
        rec == StreamRead(file, pos, recBytes)
    IN  IF pos + recBytes < Len(file)
        THEN [exc |-> NoExc, end |-> FALSE, rec |-> rec,
              it |-> [it EXCEPT !.opened = TRUE, !.pos = pos + recBytes]]
        ELSE [exc |-> NoExc, end |-> TRUE, rec |-> <<>>,
              it |-> [it EXCEPT !.opened = TRUE, !.pos = pos]]

(* Variant: the reader ends silently at a short record *)
FLRNextSilentEnd(file, recBytes, hdrBytes, it) ==
    LET pos == IF it.opened THEN it.pos ELSE hdrBytes
        rec == StreamRead(file, pos, recBytes)
    IN  IF pos < Len(file) /\ Len(rec) = recBytes
        THEN [exc |-> NoExc, end |-> FALSE, rec |-> rec,
              it |-> [it EXCEPT !.opened = TRUE, !.pos = pos + recBytes]]
        ELSE [exc |-> NoExc, end |-> TRUE, rec |-> <<>>,
              it |-> [it EXCEPT !.opened = TRUE, !.pos = pos]]

(* One get_next of a FixedLengthRecordDataset(file, recBytes,              *)
(* header_bytes=hdrBytes) iterator.  The reader takes the file, the record *)
(* size and the header size and nothing else: the header's item count is   *)
(* not an input.  On its first call it opens the file and skips the        *)
(* header; a reader built strict rejects there a body that is not a whole  *)
(* number of records, a reader built lax fails when it reaches the short   *)
(* record.  Then it yields the next recBytes bytes until the file ends.    *)
FLRNext(file, recBytes, hdrBytes, it) ==
    LET pos  == IF it.opened THEN it.pos ELSE hdrBytes
        body == Len(file) - hdrBytes
        rec  == StreamRead(file, pos, recBytes)
        now  == [it EXCEPT !.opened = TRUE, !.pos = pos]
    IN  IF ~it.opened /\ it.strict /\ body % recBytes # 0
        THEN [exc |-> BodySizeError, end |-> FALSE, rec |-> <<>>, it |-> now]
        ELSE IF pos >= Len(file)
        THEN [exc |-> NoExc, end |-> TRUE, rec |-> <<>>, it |-> now]
        ELSE IF Len(rec) < recBytes
        THEN [exc |-> ShortRecordError, end |-> FALSE, rec |-> <<>>, it |-> now]
        ELSE [exc |-> NoExc, end |-> FALSE, rec |-> rec,
              it |-> [now EXCEPT !.pos = pos + recBytes]]

(* images = FixedLengthRecordDataset(...).map(decode_image); labels =      *)
(* FixedLengthRecordDataset(...).map(decode_label); return Dataset.zip.    *)
(* Nothing is read here: the datasets are lazy.                            *)
Build ==
    /\ pc = "build"
    /\ \E strict \in BOOLEAN :
          /\ imgIt' = [built |-> TRUE, strict |-> strict, opened |-> FALSE, pos |-> 0]
          /\ labIt' = [built |-> TRUE, strict |-> strict, opened |-> FALSE, pos |-> 0]
    /\ itStatus' = "active"
    /\ pc' = "iterate"
    /\ UNCHANGED <<imagesFile, labelsFile, handles, cursor, words, exc, ret, out, requests>>

(* One get_next of the zipped dataset: the images iterator is asked        *)
(* first, then the labels iterator; the first component that ends or       *)
(* fails ends or fails the zip, and a pair is yielded only when both       *)
(* produced an element.                                                    *)
ZipStep(i, l) ==
    IF i.exc # NoExc
    THEN [status |-> "error", exc |-> i.exc, pairs |-> <<>>, imgIt |-> i.it, labIt |-> labIt]
    ELSE IF i.end
    THEN [status |-> "end", exc |-> NoExc, pairs |-> <<>>, imgIt |-> i.it, labIt |-> labIt]
    ELSE IF l.exc # NoExc
    THEN [status |-> "error", exc |-> l.exc, pairs |-> <<>>, imgIt |-> i.it, labIt |-> l.it]
    ELSE IF l.end
    THEN [status |-> "end", exc |-> NoExc, pairs |-> <<>>, imgIt |-> i.it, labIt |-> l.it]
    ELSE [status |-> "active", exc |-> NoExc,
          pairs |-> << <<DecodeImage(i.rec), DecodeLabel(l.rec)>> >>,
          imgIt |-> i.it, labIt |-> l.it]

(* Variant: the labels reader skips 16 header bytes instead of 8 *)
ZipGetNextLabelHeader16 ==
    /\ pc = "iterate"
    /\ itStatus = "active"
    /\ LET z == ZipStep(FLRNext(imagesFile, ImageRecordBytes, ImageHeaderBytes, imgIt),
                        FLRNext(labelsFile, LabelRecordBytes, ImageHeaderBytes, labIt))
       IN  /\ itStatus' = z.status
           /\ exc' = z.exc
           /\ out' = out \o z.pairs
           /\ imgIt' = z.imgIt
           /\ labIt' = z.labIt
    /\ requests' = requests + 1
    /\ UNCHANGED <<imagesFile, labelsFile, pc, handles, cursor, words, ret>>

ZipGetNext ==
    /\ pc = "iterate"
    /\ itStatus = "active"
    /\ LET z == ZipStep(FLRNext(imagesFile, ImageRecordBytes, ImageHeaderBytes, imgIt),
                        FLRNext(labelsFile, LabelRecordBytes, LabelHeaderBytes, labIt))
       IN  /\ itStatus' = z.status
           /\ exc' = z.exc
           /\ out' = out \o z.pairs
           /\ imgIt' = z.imgIt
           /\ labIt' = z.labIt
    /\ requests' = requests + 1
    /\ UNCHANGED <<imagesFile, labelsFile, pc, handles, cursor, words, ret>>

Next ==
    \/ ImgOpen \/ ImgRead32 \/ ImgCheck \/ ImgExit
    \/ LabOpen \/ LabRead32 \/ LabCheck \/ LabExit
    \/ Build \/ ZipGetNext

Spec == Init /\ [][Next]_vars

---------------------------------------------------------------------------
(* What the files hold, read off the bytes directly *)

(* the k-th 32-bit word of a file, first byte most significant *)
Word(file, k) ==
    file[4 * k - 3] * 16777216 + file[4 * k - 2] * 65536 + file[4 * k - 1] * 256 + file[4 * k]

HasImageHeader == Len(imagesFile) >= ImageHeaderBytes

HasLabelHeader == Len(labelsFile) >= LabelHeaderBytes

CompleteImageRecords == (Len(imagesFile) - ImageHeaderBytes) \div ImageRecordBytes

LabelCount == Len(labelsFile) - LabelHeaderBytes

(* where the program is *)
InImageValidator == pc \in {"img_read", "img_check", "img_exit"}

InLabelValidator == pc \in {"lab_read", "lab_check", "lab_exit"}

ImageValidatorRaised == pc = "raised" /\ handles.labels = "unopened"

ImageValidatorReturned == ret.images.returned

LabelValidatorRaised == pc = "raised" /\ handles.labels = "closed"

LabelValidatorReturned == ret.labels.returned

---------------------------------------------------------------------------
IsValidLabelFile(file) ==
    /\ Len(file) >= LabelHeaderBytes
    /\ Word(file, 1) = LabelMagic
    /\ Len(file) = LabelHeaderBytes + Word(file, 2) * LabelRecordBytes

(* C1: image header validation fails with the invalid-magic error,         *)
(* reporting the magic read, for every input whose first word is not 2051; *)
(* stated here for the inputs the claim singles out, the bytes of a valid  *)
(* label file (magic 2049, item count n, then n label bytes), however      *)
(* small n is.                                                             *)
C1_LabelFileGivesMagicError ==
    (/\ IsValidLabelFile(imagesFile)
     /\ Word(imagesFile, 1) # ImageMagic
     /\ (ImageValidatorRaised \/ ImageValidatorReturned))
    => /\ ImageValidatorRaised
       /\ exc = MagicError(Word(imagesFile, 1), "check_image_file_header")

---------------------------------------------------------------------------
(* C2, as the claim states it: for an image header with magic 2051 the     *)
(* validator succeeds iff rows = cols = 28, returning the item count and   *)
(* the dimensions with the cursor at offset 16, and fails with the         *)
(* dimensions error otherwise.                                             *)
C2_ReturnsCountAndDims ==
    (/\ HasImageHeader
     /\ Word(imagesFile, 1) = ImageMagic
     /\ (pc \in {"img_exit", "lab_open"} \/ ImageValidatorRaised))
    => IF Word(imagesFile, 3) = ImageDim /\ Word(imagesFile, 4) = ImageDim
       THEN /\ pc # "raised"
            /\ exc = NoExc
            /\ cursor = ImageHeaderBytes
            /\ (pc = "lab_open" =>
                   /\ ret.images.returned
                   /\ ret.images.items = <<Word(imagesFile, 2), ImageDim, ImageDim>>)
       ELSE /\ pc # "lab_open"
            /\ exc = DimensionsError(Word(imagesFile, 3), Word(imagesFile, 4),
                                     "check_image_file_header")

(* C2, amended: for an image header with magic 2051 the validator succeeds *)
(* iff rows = cols = 28, having read the item count and the dimensions     *)
(* with the cursor at offset 16, and returns nothing (the item count is    *)
(* discarded); for any other dimensions it fails with the dimensions       *)
(* error, which reports the rows and columns read.                         *)
C2_DimsDecideAndNothingReturned ==
    (/\ HasImageHeader
     /\ Word(imagesFile, 1) = ImageMagic
     /\ (pc \in {"img_exit", "lab_open"} \/ ImageValidatorRaised))
    => IF Word(imagesFile, 3) = ImageDim /\ Word(imagesFile, 4) = ImageDim
       THEN /\ pc # "raised"
            /\ exc = NoExc
            /\ cursor = ImageHeaderBytes
            /\ words = <<ImageMagic, Word(imagesFile, 2), ImageDim, ImageDim>>
            /\ (pc = "lab_open" => ret.images = PyNone)
       ELSE /\ pc # "lab_open"
            /\ ret.images = RetPending
            /\ exc = DimensionsError(Word(imagesFile, 3), Word(imagesFile, 4),
                                     "check_image_file_header")

C2_Witness ==
    /\ pc = "lab_open"
    /\ ret.images = PyNone
    /\ cursor = ImageHeaderBytes
    /\ words = <<ImageMagic, 2, ImageDim, ImageDim>>

---------------------------------------------------------------------------
(* C3: on a file with a full label header the label validator reads the    *)
(* two words magic and item count, fails with the invalid-magic error      *)
(* whenever magic is not 2049 and otherwise succeeds whatever the item     *)
(* count, with the cursor at offset 8; label records are decoded from      *)
(* offset 8 on.                                                            *)
C3_LabelHeader ==
    /\ (/\ HasLabelHeader
        /\ (pc = "lab_exit" \/ LabelValidatorRaised \/ LabelValidatorReturned))
       => /\ words = <<Word(labelsFile, 1), Word(labelsFile, 2)>>
          /\ cursor = LabelHeaderBytes
          /\ IF Word(labelsFile, 1) = LabelMagic
             THEN exc.site # "check_labels_file_header" /\ ~LabelValidatorRaised
             ELSE /\ exc = MagicError(Word(labelsFile, 1), "check_labels_file_header")
                  /\ ~LabelValidatorReturned
    /\ \A k \in 1..Len(out) : out[k][2] = labelsFile[cursor + k]

C3_Witness ==
    /\ LabelValidatorReturned
    /\ words = <<LabelMagic, 0>>
    /\ cursor = LabelHeaderBytes
    /\ Len(out) = 2

---------------------------------------------------------------------------
(* One read32 call of a validator: the file it reads and the value of the  *)
(* next four bytes, first byte most significant.                           *)
ReadFile == IF pc = "img_read" THEN imagesFile ELSE labelsFile

NextWord ==
    ReadFile[cursor + 1] * 16777216 + ReadFile[cursor + 2] * 65536
        + ReadFile[cursor + 3] * 256 + ReadFile[cursor + 4]

ValidationErrorClasses == {MagicError(0, "").cls, DimensionsError(0, 0, "").cls}

Read32StepAsClaimed ==
    pc \in {"img_read", "lab_read"} =>
        IF Len(ReadFile) - cursor >= WordBytes
        THEN /\ words' = Append(words, NextWord)
             /\ cursor' = cursor + WordBytes
             /\ exc' = NoExc
        ELSE /\ words' = words
             /\ exc' # NoExc
             /\ exc'.cls \notin ValidationErrorClasses

Read32StepAmended ==
    pc \in {"img_read", "lab_read"} =>
        IF Len(ReadFile) - cursor >= WordBytes
        THEN /\ words' = Append(words, NextWord)
             /\ cursor' = cursor + WordBytes
             /\ exc' = NoExc
        ELSE /\ words' = words
             /\ pc' \in {"img_exit", "lab_exit"}
             /\ exc'.site = "read32"
             /\ exc'.kind \notin {"invalid_magic", "invalid_dimensions"}
             /\ exc'.cls = (IF Len(ReadFile) = cursor THEN "IndexError" ELSE "ValueError")
             /\ ValidationErrorClasses = {"ValueError"}

(* C4, as the claim states it: read32 with at least 4 bytes left returns   *)
(* their big-endian value and advances the cursor by 4; with 0 to 3 bytes  *)
(* left it fails with one truncation error whose class is not that of the  *)
(* magic and dimension errors.                                             *)
C4_TruncationErrorIsDistinct == [][Read32StepAsClaimed]_vars

(* C4, amended: read32 with at least 4 bytes left returns their big-endian *)
(* value and advances the cursor by 4; with fewer it returns no value: it  *)
(* raises IndexError when 0 bytes are left and, when 1 to 3 bytes are      *)
(* left, ValueError - the class of the magic and dimension errors, told    *)
(* apart from them only by its message.                                    *)
C4_Read32 == [][Read32StepAmended]_vars

C4_Witness ==
    /\ pc = "img_exit"
    /\ words = <<SwappedImageMagic, 1>>
    /\ cursor = Len(imagesFile)
    /\ Len(imagesFile) = 2 * WordBytes + 3
    /\ exc = BufferSizeError

---------------------------------------------------------------------------
(* the decoded k-th image record and k-th label, read off the files *)
ExpectedImage(k) ==
    [i \in 1..ImageRecordBytes |->
        <<imagesFile[ImageHeaderBytes + (k - 1) * ImageRecordBytes + i], 255>>]

ExpectedLabel(k) == labelsFile[LabelHeaderBytes + k]

DeclaredImages == Word(imagesFile, 2)

(* the zip ended because the images ran out: labels were left over *)
ImagesRanOut == itStatus = "end" /\ Len(out) < LabelCount

---------------------------------------------------------------------------
(* The file of C6: header (2051, 2, 28, 28), one whole record, half of a  *)
(* second one; and a label file with at least two labels.                  *)
TruncatedMidRecord ==
    /\ Len(imagesFile) = ImageHeaderBytes + ImageRecordBytes + HalfRecord
    /\ Word(imagesFile, 1) = ImageMagic
    /\ DeclaredImages = 2
    /\ Word(imagesFile, 3) = ImageDim /\ Word(imagesFile, 4) = ImageDim
    /\ IsValidLabelFile(labelsFile)
    /\ LabelCount >= 2

---------------------------------------------------------------------------
WellFormedFiles ==
    /\ HasImageHeader /\ HasLabelHeader
    /\ Len(imagesFile) = ImageHeaderBytes + DeclaredImages * ImageRecordBytes
    /\ Len(labelsFile) = LabelHeaderBytes + Word(labelsFile, 2) * LabelRecordBytes
    /\ DeclaredImages = Word(labelsFile, 2)

(* C7: the zip advances both sequences in lockstep: the k-th pair is the   *)
(* k-th image record with the k-th label, nothing reordered, skipped or    *)
(* duplicated; it stops as soon as either sequence is exhausted, so m      *)
(* images and n labels give min(m, n) pairs, and two well-formed files     *)
(* declaring the same item count give that many pairs.                     *)
C7_ZipLockstep ==
    imgIt.built =>
        /\ \A k \in 1..Len(out) : out[k] = <<ExpectedImage(k), ExpectedLabel(k)>>
        /\ (labIt.opened => labIt.pos = LabelHeaderBytes + Len(out) * LabelRecordBytes)
        /\ (itStatus = "active" => Len(out) = requests)
        /\ (itStatus = "end" =>
               /\ Len(out) = Min(CompleteImageRecords, LabelCount)
               /\ requests = Len(out) + 1
               /\ (WellFormedFiles => Len(out) = DeclaredImages))

C7_Witness ==
    /\ itStatus = "end"
    /\ WellFormedFiles
    /\ Len(out) = 2
    /\ out[1] # out[2]

---------------------------------------------------------------------------
ValidImageHeader ==
    /\ HasImageHeader
    /\ Word(imagesFile, 1) = ImageMagic
    /\ Word(imagesFile, 3) = ImageDim /\ Word(imagesFile, 4) = ImageDim

ValidLabelHeader == HasLabelHeader /\ Word(labelsFile, 1) = LabelMagic

NothingDecoded ==
    /\ ~imgIt.built /\ ~labIt.built
    /\ ~imgIt.opened /\ ~labIt.opened
    /\ itStatus = "none"
    /\ requests = 0
    /\ out = <<>>

(* C8: dataset() validates both headers before any record is read or any   *)
(* pair yielded; when a header is invalid (wrong magic, wrong dimensions,  *)
(* truncated) the error reaches the caller, no dataset is returned and no  *)
(* sample is ever produced.                                                *)
C8_FailFast ==
    /\ (~NothingDecoded =>
           /\ ValidImageHeader /\ ValidLabelHeader
           /\ ImageValidatorReturned /\ LabelValidatorReturned
           /\ pc = "iterate")
    /\ (pc = "raised" => exc # NoExc /\ NothingDecoded)
    /\ (~ValidImageHeader /\ ~InImageValidator /\ pc # "img_open" => ImageValidatorRaised)
    /\ (~ValidLabelHeader /\ ImageValidatorReturned /\ ~InLabelValidator /\ pc # "lab_open"
           => LabelValidatorRaised)

C8_Witness ==
    /\ LabelValidatorRaised
    /\ ValidImageHeader
    /\ CompleteImageRecords = 2
    /\ exc.kind = "invalid_magic"
    /\ NothingDecoded

---------------------------------------------------------------------------
(* C9: a handle opened by a validator is closed once the validator has     *)
(* exited, whether it returned or raised (wrong magic, wrong dimensions,   *)
(* short read).                                                            *)
C9_HandlesReleased ==
    /\ (handles.images = "open" => InImageValidator)
    /\ (handles.labels = "open" => InLabelValidator)
    /\ (pc \in {"raised", "build", "iterate"} => handles.images = "closed")
    /\ (pc \in {"build", "iterate"} \/ LabelValidatorRaised => handles.labels = "closed")

C9_Witness ==
    /\ pc = "raised"
    /\ exc = BufferSizeError
    /\ Len(words) = 3
    /\ handles.images = "closed"

---------------------------------------------------------------------------
ImageOutcomeKnown ==
    pc = "img_exit" \/ ImageValidatorRaised \/ ImageValidatorReturned

(* C10: the image validator reads all four header words before it checks   *)
(* any, and checks magic before dimensions: a 16-byte header wrong in both *)
(* is rejected with the magic error, the dimensions error is reported only *)
(* when magic = 2051, and a header cut short is rejected by the read, not  *)
(* by a check.                                                             *)
C10_ReadAllThenMagicFirst ==
    /\ (exc.site = "check_image_file_header" =>
           /\ cursor = ImageHeaderBytes
           /\ words = <<Word(imagesFile, 1), Word(imagesFile, 2),
                        Word(imagesFile, 3), Word(imagesFile, 4)>>)
    /\ (ImageOutcomeKnown /\ HasImageHeader /\ Word(imagesFile, 1) # ImageMagic =>
           exc = MagicError(Word(imagesFile, 1), "check_image_file_header"))
    /\ (exc.kind = "invalid_dimensions" => Word(imagesFile, 1) = ImageMagic)
    /\ (ImageOutcomeKnown /\ ~HasImageHeader =>
           exc.site = "read32" /\ ~ImageValidatorReturned)

C10_Witness ==
    /\ ImageValidatorRaised
    /\ exc.kind = "invalid_magic"
    /\ Word(imagesFile, 3) # ImageDim
    /\ Word(imagesFile, 4) # ImageDim

============================================================================
